---------------------------- MODULE Spec2Model ----------------------------
(* A model of the food-cost calculator in src/app.py: the unit converter,  *)
(* the two mutating HTTP handlers (add_ingredient, save_recipe) and the    *)
(* SQLite store they write to.                                             *)
(*                                                                         *)
(* Numbers.  Python floats are modelled as exact rationals <<n, d>> in     *)
(* lowest terms with d > 0.  <<1, 0>>, <<-1, 0>> and <<0, 0>> stand for    *)
(* the IEEE values inf, -inf and nan, which Python's float division never  *)
(* produces from finite operands (it raises ZeroDivisionError instead).    *)
(* Text.  Strings the code manipulates (names, prices, numeric fields) are *)
(* sequences of one-character strings; unit names, which the code only     *)
(* compares and looks up, are plain strings.                               *)
EXTENDS Integers, Sequences, FiniteSets, TLC

VARIABLES
    ingredients,    \* rows of table ingredients
    recipes,        \* rows of table recipes
    recipe_items,   \* rows of table recipe_items
    sqlite_sequence,\* AUTOINCREMENT high-water mark of each table
    nreq,           \* number of requests handled so far
    last,           \* the most recent request and its outcome
    conv            \* the converter's call under test (SpecConv only)

db   == <<ingredients, recipes, recipe_items, sqlite_sequence>>
vars == <<ingredients, recipes, recipe_items, sqlite_sequence, nreq, last, conv>>

-----------------------------------------------------------------------------
(* Bounds of the model *)

MaxRequests == 2    \* requests handled in one behaviour
MaxItems    == 2    \* line items in one save_recipe payload
MaxQtyNum   == 3    \* converter quantities are n/d, n in 0..MaxQtyNum
MaxQtyDen   == 2    \*                            d in 1..MaxQtyDen

-----------------------------------------------------------------------------
(* Exact arithmetic standing for float arithmetic *)

Abs(n) == IF n < 0 THEN -n ELSE n

Sign(n) == IF n < 0 THEN -1 ELSE IF n = 0 THEN 0 ELSE 1

RECURSIVE GCD(_, _)
GCD(a, b) == IF b = 0 THEN a ELSE GCD(b, a % b)

\* n/d in lowest terms, the sign carried by the numerator
Rat(n, d) ==
    IF d = 0 THEN <<Sign(n), 0>>
    ELSE LET g == GCD(Abs(n), Abs(d))
         IN  <<Sign(d) * (n \div g), Abs(d) \div g>>

IsFinite(x) == x[2] # 0

IsZero(x) == x[1] = 0 /\ x[2] # 0

\* x * y for operands in lowest terms: cross-reduced before multiplying, so
\* that no intermediate product is larger than the result
FMul(x, y) ==
    IF x[2] = 0 \/ y[2] = 0 THEN <<Sign(x[1]) * Sign(y[1]), 0>>
    ELSE LET g1 == GCD(Abs(x[1]), y[2])
             g2 == GCD(Abs(y[1]), x[2])
         IN  <<(x[1] \div g1) * (y[1] \div g2), (x[2] \div g2) * (y[2] \div g1)>>

FAdd(x, y) ==
    IF x[2] = 0 \/ y[2] = 0 THEN <<Sign(x[1] * y[2] + y[1] * x[2]), 0>>
    ELSE LET g == GCD(x[2], y[2])
         IN  Rat(x[1] * (y[2] \div g) + y[1] * (x[2] \div g), x[2] * (y[2] \div g))

\* 1 / y for finite y # 0
Recip(y) == IF y[1] < 0 THEN <<-y[2], -y[1]>> ELSE <<y[2], y[1]>>

\* x / y for finite y # 0
FQuot(x, y) == FMul(x, Recip(y))

\* IEEE division: a zero divisor gives inf or nan and no error
IeeeDiv(x, y) == [err |-> "none", val |-> IF IsZero(y) THEN <<Sign(x[1]), 0>> ELSE FQuot(x, y)]

\* Python's float / float: a zero divisor raises ZeroDivisionError
PyDiv(x, y) ==
    IF IsZero(y) THEN [err |-> "ZeroDivisionError", val |-> <<0, 0>>]
    ELSE [err |-> "none", val |-> FQuot(x, y)]

-----------------------------------------------------------------------------
(* UNIT_FACTORS and convert_quantity *)

UNITS == {"pounds", "fluid ounces", "ounces", "milliliters", "liters",
          "quarts", "gallons", "each"}

UNIT_FACTORS ==
    [u \in UNITS |->
        CASE u = "pounds"       -> [group |-> "weight", factor |-> Rat(16, 1)]
          [] u = "ounces"       -> [group |-> "weight", factor |-> Rat(1, 1)]
          [] u = "fluid ounces" -> [group |-> "volume", factor |-> Rat(295735, 10000)]
          [] u = "milliliters"  -> [group |-> "volume", factor |-> Rat(1, 1)]
          [] u = "liters"       -> [group |-> "volume", factor |-> Rat(1000, 1)]
          [] u = "quarts"       -> [group |-> "volume", factor |-> Rat(946353, 1000)]
          [] u = "gallons"      -> [group |-> "volume", factor |-> Rat(378541, 100)]
          [] u = "each"         -> [group |-> "count",  factor |-> Rat(1, 1)]]

\* convert_quantity without its group check
convert_quantity_nogroup(quantity, from_unit, to_unit) ==
    IF from_unit \notin UNITS \/ to_unit \notin UNITS
    THEN [err |-> "Unsupported unit", val |-> <<0, 0>>]
    ELSE [err |-> "none",
          val |-> FQuot(FMul(quantity, UNIT_FACTORS[from_unit].factor),
                        UNIT_FACTORS[to_unit].factor)]

\* convert_quantity multiplying by the target factor where the code divides
convert_quantity_times(quantity, from_unit, to_unit) ==
    IF from_unit \notin UNITS \/ to_unit \notin UNITS
    THEN [err |-> "Unsupported unit", val |-> <<0, 0>>]
    ELSE IF UNIT_FACTORS[from_unit].group # UNIT_FACTORS[to_unit].group
    THEN [err |-> "Cannot convert", val |-> <<0, 0>>]
    ELSE [err |-> "none",
          val |-> FMul(FMul(quantity, UNIT_FACTORS[from_unit].factor),
                       UNIT_FACTORS[to_unit].factor)]

convert_quantity(quantity, from_unit, to_unit) ==
    IF from_unit \notin UNITS \/ to_unit \notin UNITS
    THEN [err |-> "Unsupported unit", val |-> <<0, 0>>]
    ELSE LET from_group  == UNIT_FACTORS[from_unit].group
             from_factor == UNIT_FACTORS[from_unit].factor
             to_group    == UNIT_FACTORS[to_unit].group
             to_factor   == UNIT_FACTORS[to_unit].factor
         IN  IF from_group # to_group
             THEN [err |-> "Cannot convert", val |-> <<0, 0>>]
             ELSE LET base_quantity == FMul(quantity, from_factor)
                  IN  [err |-> "none", val |-> FQuot(base_quantity, to_factor)]

-----------------------------------------------------------------------------
(* Text: str.strip, str.replace("$", ""), SQL lower(), float(str) *)

UpperChars == <<"A", "B", "C", "D", "E", "F", "G", "H", "I", "J", "K", "L", "M",
                "N", "O", "P", "Q", "R", "S", "T", "U", "V", "W", "X", "Y", "Z">>

LowerChars == <<"a", "b", "c", "d", "e", "f", "g", "h", "i", "j", "k", "l", "m",
                "n", "o", "p", "q", "r", "s", "t", "u", "v", "w", "x", "y", "z">>

DigitChars == <<"0", "1", "2", "3", "4", "5", "6", "7", "8", "9">>

LowerOf == [c \in {UpperChars[i] : i \in 1..26} |->
                LowerChars[CHOOSE i \in 1..26 : UpperChars[i] = c]]

LowerChar(c) == IF c \in DOMAIN LowerOf THEN LowerOf[c] ELSE c

\* SQL lower(): ASCII letters folded, every other character kept
Lower(s) == [i \in 1..Len(s) |-> LowerChar(s[i])]

\* str.strip(): leading and trailing blanks removed
Strip(s) ==
    LET solid == {i \in 1..Len(s) : s[i] # " "}
    IN  IF solid = {} THEN <<>>
        ELSE LET lo == CHOOSE i \in solid : \A j \in solid : i <= j
                 hi == CHOOSE i \in solid : \A j \in solid : j <= i
             IN  SubSeq(s, lo, hi)

IsDollar(c) == c = "$"

NotDollar(c) == ~IsDollar(c)

DigitOf == [c \in {DigitChars[i] : i \in 1..10} |->
                (CHOOSE i \in 1..10 : DigitChars[i] = c) - 1]

IsDigit(c) == c \in DOMAIN DigitOf

DigitVal(c) == DigitOf[c]

RECURSIVE DigitsVal(_)
DigitsVal(s) ==
    IF s = <<>> THEN 0
    ELSE DigitsVal(SubSeq(s, 1, Len(s) - 1)) * 10 + DigitVal(s[Len(s)])

RECURSIVE Pow10(_)
Pow10(k) == IF k = 0 THEN 1 ELSE 10 * Pow10(k - 1)

\* float(str) on unsigned decimal text ("12", "12.50", ".5"); any other text
\* of the model's inputs raises ValueError
PyFloatText(s) ==
    LET t    == Strip(s)
        dots == {i \in 1..Len(t) : t[i] = "."}
        dot  == IF dots = {} THEN Len(t) + 1 ELSE CHOOSE i \in dots : TRUE
        ip   == SubSeq(t, 1, dot - 1)
        fp   == SubSeq(t, dot + 1, Len(t))
    IN  IF /\ Cardinality(dots) <= 1
           /\ Len(ip) + Len(fp) >= 1
           /\ \A i \in 1..Len(ip) : IsDigit(ip[i])
           /\ \A i \in 1..Len(fp) : IsDigit(fp[i])
        THEN [err |-> "none",
              val |-> Rat(DigitsVal(ip) * Pow10(Len(fp)) + DigitsVal(fp), Pow10(Len(fp)))]
        ELSE [err |-> "ValueError", val |-> <<0, 0>>]

\* float(x) of a payload field: a JSON number is taken as it is, text is
\* parsed.  A field is <<"num", n, d>> or <<"str", characters>>.
Num(n, d) == <<"num", n, d>>

Str(s) == <<"str", s>>

PyFloat(x) ==
    IF x[1] = "num" THEN [err |-> "none", val |-> Rat(x[2], x[3])]
    ELSE PyFloatText(x[2])

\* str(x) of a payload field, for the texts the model sends
PyStr(x) == x[2]

parse_price(raw) == PyFloatText(Strip(SelectSeq(raw, NotDollar)))

\* dict.get(key, "each") for an optional unit field
Absent == "<absent>"

GetUnit(u) == IF u = Absent THEN "each" ELSE u

-----------------------------------------------------------------------------
(* The store: the three tables of init_db and their AUTOINCREMENT counters. *)
(* A store value is a record of the four; the variables hold the committed  *)
(* one, a handler works on a copy inside its transaction.                   *)

Store == [ingredients |-> ingredients, recipes |-> recipes,
          recipe_items |-> recipe_items, sqlite_sequence |-> sqlite_sequence]

EmptyStore == [ingredients |-> {}, recipes |-> {}, recipe_items |-> {},
               sqlite_sequence |-> [ingredients |-> 0, recipes |-> 0, recipe_items |-> 0]]

\* the row of least rowid among rows (a table scan's first row)
FirstRow(rows) == CHOOSE r \in rows : \A q \in rows : r.id <= q.id

\* SELECT ... FROM ingredients WHERE lower(name) = lower(?), fetchone():
\* the empty set for None, else the one row fetched
find_ingredient(ings, name) ==
    LET hits == {r \in ings : Lower(r.name) = Lower(name)}
    IN  IF hits = {} THEN {} ELSE {FirstRow(hits)}

\* INSERT ... ON CONFLICT(name) written as INSERT OR REPLACE: the old row is
\* deleted and a fresh one takes a new id
upsert_ingredient_replace(st, name, ap_quantity, ap_unit, ap_price) ==
    LET id == st.sqlite_sequence.ingredients + 1
    IN  [st EXCEPT !.ingredients =
                       {r \in @ : r.name # name} \cup
                       {[id |-> id, name |-> name, ap_quantity |-> ap_quantity,
                         ap_unit |-> ap_unit, ap_price |-> ap_price]},
                   !.sqlite_sequence.ingredients = id]

\* the upsert followed by a refresh of the snapshots that reference the row
upsert_ingredient_cascade(st, name, ap_quantity, ap_unit, ap_price) ==
    LET id   == st.sqlite_sequence.ingredients + 1
        same == {r \in st.ingredients : r.name = name}
    IN  [st EXCEPT !.ingredients =
                       IF same = {}
                       THEN @ \cup {[id |-> id, name |-> name, ap_quantity |-> ap_quantity,
                                     ap_unit |-> ap_unit, ap_price |-> ap_price]}
                       ELSE {IF r \in same
                             THEN [r EXCEPT !.ap_quantity = ap_quantity,
                                            !.ap_unit = ap_unit, !.ap_price = ap_price]
                             ELSE r : r \in @},
                   !.recipe_items =
                       {IF \E r \in same : r.id = it.ingredient_id
                        THEN [it EXCEPT !.ap_quantity = ap_quantity,
                                        !.ap_unit = ap_unit, !.ap_price = ap_price]
                        ELSE it : it \in @},
                   !.sqlite_sequence.ingredients = id]

\* INSERT INTO ingredients ... ON CONFLICT(name) DO UPDATE SET ap_quantity,
\* ap_unit, ap_price.  name is UNIQUE under the column's BINARY collation, so
\* the conflict is on the exact text.  The statement draws a rowid from the
\* AUTOINCREMENT counter before it detects the conflict, so the counter
\* advances on the update path too.
upsert_ingredient(st, name, ap_quantity, ap_unit, ap_price) ==
    LET id   == st.sqlite_sequence.ingredients + 1
        same == {r \in st.ingredients : r.name = name}
    IN  [st EXCEPT !.ingredients =
                       IF same = {}
                       THEN @ \cup {[id |-> id, name |-> name, ap_quantity |-> ap_quantity,
                                     ap_unit |-> ap_unit, ap_price |-> ap_price]}
                       ELSE {IF r \in same
                             THEN [r EXCEPT !.ap_quantity = ap_quantity,
                                            !.ap_unit = ap_unit, !.ap_price = ap_price]
                             ELSE r : r \in @},
                   !.sqlite_sequence.ingredients = id]

\* a connection in autocommit mode: what was written before the exception stays
with_connection_autocommit(before, after, err) == after

\* with get_connection() as conn: the connection's context manager commits
\* when the block ends normally and rolls back when it raises
with_connection(before, after, err) == IF err = "none" THEN after ELSE before

-----------------------------------------------------------------------------
(* save_recipe, piece by piece *)

\* the lookup with the caller's AP fields kept for a known ingredient
resolve_ingredient_caller(st, ingredient_name, ap_quantity, ap_unit, ap_price) ==
    LET existing == find_ingredient(st.ingredients, ingredient_name)
        id       == st.sqlite_sequence.ingredients + 1
    IN  IF existing # {}
        THEN [st |-> st, ingredient_id |-> FirstRow(existing).id,
              ap_quantity |-> ap_quantity, ap_unit |-> ap_unit, ap_price |-> ap_price,
              created |-> 0]
        ELSE [st |-> [st EXCEPT !.ingredients =
                                    @ \cup {[id |-> id, name |-> ingredient_name,
                                             ap_quantity |-> ap_quantity,
                                             ap_unit |-> ap_unit, ap_price |-> ap_price]},
                                !.sqlite_sequence.ingredients = id],
              ingredient_id |-> id,
              ap_quantity |-> ap_quantity, ap_unit |-> ap_unit, ap_price |-> ap_price,
              created |-> 1]

\* The ingredient lookup of one line item: a row whose name matches without
\* regard to case supplies the AP fields; with none, a row is inserted from
\* the caller's fields and lastrowid is its id.
resolve_ingredient(st, ingredient_name, ap_quantity, ap_unit, ap_price) ==
    LET existing == find_ingredient(st.ingredients, ingredient_name)
        id       == st.sqlite_sequence.ingredients + 1
    IN  IF existing # {}
        THEN LET e == FirstRow(existing)
             IN  [st |-> st, ingredient_id |-> e.id,
                  ap_quantity |-> e.ap_quantity, ap_unit |-> e.ap_unit,
                  ap_price |-> e.ap_price, created |-> 0]
        ELSE [st |-> [st EXCEPT !.ingredients =
                                    @ \cup {[id |-> id, name |-> ingredient_name,
                                             ap_quantity |-> ap_quantity,
                                             ap_unit |-> ap_unit, ap_price |-> ap_price]},
                                !.sqlite_sequence.ingredients = id],
              ingredient_id |-> id,
              ap_quantity |-> ap_quantity, ap_unit |-> ap_unit, ap_price |-> ap_price,
              created |-> 1]

NoCosts(err) == [err |-> err, ap_cost_per_unit |-> <<0, 0>>,
                 ep_cost_per_unit |-> <<0, 0>>, extended_cost |-> <<0, 0>>]

\* extended_cost = ep_cost_per_unit * ep_quantity, once ep_cost_per_unit is known
extended_costs(ep_quantity, ap_cost_per_unit, ep_cost) ==
    IF ep_cost.err # "none" THEN NoCosts(ep_cost.err)
    ELSE [err |-> "none", ap_cost_per_unit |-> ap_cost_per_unit,
          ep_cost_per_unit |-> ep_cost.val,
          extended_cost |-> FMul(ep_cost.val, ep_quantity)]

\* the yield fraction multiplied in where the code divides by it
ep_costs_yield_times(ep_quantity, yield_percent, ap_cost) ==
    IF ap_cost.err # "none" THEN NoCosts(ap_cost.err)
    ELSE extended_costs(ep_quantity, ap_cost.val,
                        [err |-> "none",
                         val |-> FMul(ap_cost.val, PyDiv(yield_percent, Rat(100, 1)).val)])

\* ep_cost_per_unit = ap_cost_per_unit / (yield_percent / 100.0), once
\* ap_cost_per_unit is known
ep_costs(ep_quantity, yield_percent, ap_cost) ==
    IF ap_cost.err # "none" THEN NoCosts(ap_cost.err)
    ELSE extended_costs(ep_quantity, ap_cost.val,
                        PyDiv(ap_cost.val, PyDiv(yield_percent, Rat(100, 1)).val))

\* converted_ap_qty_in_ep_units, ap_cost_per_unit, ep_cost_per_unit and
\* extended_cost of one line item.  The computation is split over ep_costs
\* and extended_costs so that each value is computed once and handed on.
line_costs(ep_quantity, ep_unit, yield_percent, ap_quantity, ap_unit, ap_price) ==
    LET c == convert_quantity(ap_quantity, ap_unit, ep_unit)
    IN  IF c.err # "none" THEN NoCosts(c.err)
        ELSE ep_costs(ep_quantity, yield_percent, PyDiv(ap_price, c.val))

\* the totals with the markup alone stored as total_with_spice
recipe_totals_markup_only(total_cost, portions, spice_factor_percent) ==
    LET cpp == PyDiv(total_cost, portions)
    IN  IF cpp.err # "none"
        THEN [err |-> cpp.err, cost_per_portion |-> <<0, 0>>, total_with_spice |-> <<0, 0>>]
        ELSE [err |-> "none", cost_per_portion |-> cpp.val,
              total_with_spice |->
                  FMul(cpp.val, PyDiv(spice_factor_percent, Rat(100, 1)).val)]

\* cost_per_portion, spice_factor and total_with_spice
recipe_totals(total_cost, portions, spice_factor_percent) ==
    LET cpp == PyDiv(total_cost, portions)
    IN  IF cpp.err # "none"
        THEN [err |-> cpp.err, cost_per_portion |-> <<0, 0>>, total_with_spice |-> <<0, 0>>]
        ELSE LET spice_factor == PyDiv(spice_factor_percent, Rat(100, 1)).val
             IN  [err |-> "none", cost_per_portion |-> cpp.val,
                  total_with_spice |-> FAdd(FMul(cpp.val, spice_factor), cpp.val)]

\* float(), strip() and parse_price() of one item's fields, each with the
\* error it raised
parse_item(item) ==
    [ingredient_name |-> Strip(item.ingredient),
     ep_quantity     |-> PyFloat(item.ep_quantity),
     ep_unit         |-> GetUnit(item.ep_unit),
     yield_percent   |-> PyFloat(item.yield_percent),
     ap_quantity     |-> PyFloat(item.ap_quantity),
     ap_unit         |-> GetUnit(item.ap_unit),
     ap_price        |-> parse_price(PyStr(item.ap_price))]

\* the first error among the fields, in the order the code reads them
parse_error(p) ==
    IF p.ep_quantity.err # "none" THEN p.ep_quantity.err
    ELSE IF p.yield_percent.err # "none" THEN p.yield_percent.err
    ELSE IF p.ap_quantity.err # "none" THEN p.ap_quantity.err
    ELSE p.ap_price.err

\* total_cost += extended_cost; recipe_items.append({...})
append_item(p, ing, costs, acc) ==
    IF costs.err # "none"
    THEN [acc EXCEPT !.st = ing.st, !.created = @ + ing.created, !.err = costs.err]
    ELSE [acc EXCEPT
            !.st = ing.st,
            !.created = @ + ing.created,
            !.total_cost = FAdd(@, costs.extended_cost),
            !.supplied = Append(@, [ingredient_name |-> p.ingredient_name,
                                    ap_quantity |-> p.ap_quantity.val,
                                    ap_unit |-> p.ap_unit,
                                    ap_price |-> p.ap_price.val]),
            !.recipe_items = Append(@,
                [ingredient_id    |-> ing.ingredient_id,
                 ingredient_name  |-> p.ingredient_name,
                 ep_quantity      |-> p.ep_quantity.val,
                 ep_unit          |-> p.ep_unit,
                 yield_percent    |-> p.yield_percent.val,
                 ap_quantity      |-> ing.ap_quantity,
                 ap_unit          |-> ing.ap_unit,
                 ap_price         |-> ing.ap_price,
                 ap_cost_per_unit |-> costs.ap_cost_per_unit,
                 ep_cost_per_unit |-> costs.ep_cost_per_unit,
                 extended_cost    |-> costs.extended_cost])]

\* the costs of an item from the AP fields its ingredient resolved to
cost_item(p, ing, acc) ==
    append_item(p, ing,
                line_costs(p.ep_quantity.val, p.ep_unit, p.yield_percent.val,
                           ing.ap_quantity, ing.ap_unit, ing.ap_price),
                acc)

\* the lookup or insert of an item's ingredient, once its fields are read
resolve_item(p, acc) ==
    IF parse_error(p) # "none" THEN [acc EXCEPT !.err = parse_error(p)]
    ELSE cost_item(p,
                   resolve_ingredient(acc.st, p.ingredient_name, p.ap_quantity.val,
                                      p.ap_unit, p.ap_price.val),
                   acc)

\* One turn of the loop over items: parse_item, resolve_item, cost_item and
\* append_item in turn.  acc carries the working store, the recipe_items
\* list built so far, total_cost, the first error raised, and, for the
\* record of the request, the AP fields each item supplied and the number
\* of ingredient rows inserted.
process_item(item, acc) == resolve_item(parse_item(item), acc)

\* for item in items: ..., stopping at the first exception
RECURSIVE process_items(_, _, _)
process_items(items, i, acc) ==
    IF i > Len(items) \/ acc.err # "none" THEN acc
    ELSE process_items(items, i + 1, process_item(items[i], acc))

\* INSERT INTO recipes, recipe_id = lastrowid, then executemany INSERT INTO
\* recipe_items, one row per entry of the list, in order
insert_recipe(st, recipe_name, portions, spice_factor_percent, total_cost, cost_per_portion, total_with_spice, items) ==
    LET recipe_id == st.sqlite_sequence.recipes + 1
        base      == st.sqlite_sequence.recipe_items
    IN  [st EXCEPT
            !.recipes = @ \cup {[id |-> recipe_id, recipe_name |-> recipe_name,
                                 portions |-> portions,
                                 spice_factor_percent |-> spice_factor_percent,
                                 total_cost |-> total_cost,
                                 cost_per_portion |-> cost_per_portion,
                                 total_with_spice |-> total_with_spice]},
            !.recipe_items = @ \cup
                {[id               |-> base + k,
                  recipe_id        |-> recipe_id,
                  ingredient_id    |-> items[k].ingredient_id,
                  ingredient_name  |-> items[k].ingredient_name,
                  ep_quantity      |-> items[k].ep_quantity,
                  ep_unit          |-> items[k].ep_unit,
                  yield_percent    |-> items[k].yield_percent,
                  ap_quantity      |-> items[k].ap_quantity,
                  ap_unit          |-> items[k].ap_unit,
                  ap_price         |-> items[k].ap_price,
                  ap_cost_per_unit |-> items[k].ap_cost_per_unit,
                  ep_cost_per_unit |-> items[k].ep_cost_per_unit,
                  extended_cost    |-> items[k].extended_cost] : k \in 1..Len(items)},
            !.sqlite_sequence.recipes = recipe_id,
            !.sqlite_sequence.recipe_items = base + Len(items)]

NoOutcome(st) == [err |-> "none", st |-> st, in_block |-> FALSE, created |-> 0,
                  supplied |-> <<>>, portions |-> <<0, 0>>, resp |-> <<>>]

\* the two INSERTs and the response, or the error of the totals
save_recipe_insert(recipe_name, portions, spice_factor_percent, acc, totals, out) ==
    IF totals.err # "none" THEN [out EXCEPT !.err = totals.err]
    ELSE [out EXCEPT
            !.st = insert_recipe(acc.st, recipe_name, portions, spice_factor_percent,
                                 acc.total_cost, totals.cost_per_portion,
                                 totals.total_with_spice, acc.recipe_items),
            !.supplied = acc.supplied,
            !.resp = <<acc.st.sqlite_sequence.recipes + 1, acc.total_cost,
                       totals.cost_per_portion, totals.total_with_spice>>]

\* what follows the loop: the totals, then the inserts
save_recipe_totals(recipe_name, portions, spice_factor_percent, acc, out) ==
    IF acc.err # "none" THEN [out EXCEPT !.err = acc.err]
    ELSE save_recipe_insert(recipe_name, portions, spice_factor_percent, acc,
                            recipe_totals(acc.total_cost, portions, spice_factor_percent),
                            out)

\* the state of the request when the loop has ended
save_recipe_loop_end(payload, portions, spice_factor_percent, acc) ==
    save_recipe_totals(Strip(payload.recipe_name), portions, spice_factor_percent, acc,
                       [NoOutcome(acc.st) EXCEPT !.in_block = TRUE,
                                                 !.created = acc.created,
                                                 !.portions = portions])

\* the with-block: the loop from an empty list and a total of 0.0
save_recipe_block(payload, st, portions, spice_factor_percent) ==
    IF portions.err # "none" THEN [NoOutcome(st) EXCEPT !.err = portions.err]
    ELSE IF spice_factor_percent.err # "none"
    THEN [NoOutcome(st) EXCEPT !.err = spice_factor_percent.err]
    ELSE save_recipe_loop_end(payload, portions.val, spice_factor_percent.val,
             process_items(payload.items, 1,
                           [err |-> "none", st |-> st, recipe_items |-> <<>>,
                            total_cost |-> Rat(0, 1), supplied |-> <<>>, created |-> 0]))

\* The body of save_recipe on the store st: the fields read before the
\* connection is opened, then save_recipe_block, save_recipe_totals and
\* save_recipe_insert.  The result holds the working store as the block
\* left it and the error that ended it.
save_recipe_run(payload, st) ==
    save_recipe_block(payload, st, PyFloat(payload.portions),
                      PyFloat(payload.spice_factor_percent))

-----------------------------------------------------------------------------
(* Request payloads *)

Salt    == <<"s", "a", "l", "t">>
SaltCap == <<"S", "a", "l", "t">>
SaltPad == <<" ", "S", "A", "L", "T", " ">>
Rice    == <<"r", "i", "c", "e">>
Soup    == <<"s", "o", "u", "p">>

\* the line item of the worked example: 10 ounces at 80 % yield of an
\* ingredient bought as 1 pound for $2.00
BaseItem == [ingredient    |-> Salt,
             ep_quantity   |-> Num(10, 1),
             ep_unit       |-> "ounces",
             yield_percent |-> Num(80, 1),
             ap_quantity   |-> Num(1, 1),
             ap_unit       |-> "pounds",
             ap_price      |-> Str(<<"$", "2", ".", "0", "0">>)]

RiceItem == [BaseItem EXCEPT !.ingredient = Rice]

ItemInputs ==
    { BaseItem,
      [BaseItem EXCEPT !.ingredient = SaltPad, !.ap_quantity = Num(2, 1),
                       !.ap_unit = "ounces", !.ap_price = Str(<<"3">>)],
      [RiceItem EXCEPT !.yield_percent = Num(0, 1)],
      [RiceItem EXCEPT !.ep_unit = "cups"],
      [RiceItem EXCEPT !.ep_unit = "milliliters"],
      [RiceItem EXCEPT !.ap_price = Str(<<"a", "b", "c">>)] }

ItemLists == UNION {[1..n -> ItemInputs] : n \in 0..MaxItems}

RecipePayloads ==
    [recipe_name          : {Soup},
     portions             : {Num(5, 1), Num(0, 1)},
     spice_factor_percent : {Num(10, 1)},
     items                : ItemLists]

IngredientPayloads ==
    [name        : {Salt, SaltCap},
     ap_quantity : {Num(2, 1), Num(4, 1)},
     ap_unit     : {"pounds", Absent},
     ap_price    : {Str(<<"$", "3", ".", "5", "0">>), Str(<<"a", "b", "c">>)}]

-----------------------------------------------------------------------------
(* The handlers *)

NoRequest == [op |-> "none", status |-> "none", err |-> "none", name |-> <<>>,
              ap |-> <<>>, supplied |-> <<>>, portions |-> <<0, 0>>, created |-> 0,
              zero_yield |-> FALSE, zero_portions |-> FALSE, resp |-> <<>>]

Commit(st) ==
    /\ ingredients' = st.ingredients
    /\ recipes' = st.recipes
    /\ recipe_items' = st.recipe_items
    /\ sqlite_sequence' = st.sqlite_sequence

\* POST /api/ingredients
add_ingredient(payload) ==
    /\ nreq < MaxRequests
    /\ \E ap_quantity \in {PyFloat(payload.ap_quantity)},
          ap_price \in {parse_price(PyStr(payload.ap_price))} :
         IF ap_quantity.err # "none" \/ ap_price.err # "none"
         THEN /\ UNCHANGED db
              /\ last' = [NoRequest EXCEPT
                            !.op = "add_ingredient", !.status = "error",
                            !.err = IF ap_quantity.err # "none" THEN ap_quantity.err
                                    ELSE ap_price.err]
         ELSE /\ Commit(with_connection(Store,
                            upsert_ingredient(Store, Strip(payload.name), ap_quantity.val,
                                              GetUnit(payload.ap_unit), ap_price.val),
                            "none"))
              /\ last' = [NoRequest EXCEPT
                            !.op = "add_ingredient", !.status = "ok",
                            !.name = Strip(payload.name),
                            !.ap = <<ap_quantity.val, GetUnit(payload.ap_unit), ap_price.val>>]
    /\ nreq' = nreq + 1
    /\ UNCHANGED conv

IsZeroText(s) == LET v == PyFloat(s) IN v.err = "none" /\ IsZero(v.val)

\* POST /api/recipes
save_recipe(payload) ==
    /\ nreq < MaxRequests
    /\ \E out \in {save_recipe_run(payload, Store)} :
           /\ Commit(IF out.in_block THEN with_connection(Store, out.st, out.err) ELSE Store)
           /\ last' = [NoRequest EXCEPT
                         !.op = "save_recipe",
                         !.status = IF out.err = "none" THEN "ok" ELSE "error",
                         !.err = out.err,
                         !.supplied = out.supplied,
                         !.portions = out.portions,
                         !.created = out.created,
                         !.zero_yield = \E i \in 1..Len(payload.items) :
                                            IsZeroText(payload.items[i].yield_percent),
                         !.zero_portions = IsZeroText(payload.portions),
                         !.resp = out.resp]
    /\ nreq' = nreq + 1
    /\ UNCHANGED conv

NoCall == [stage |-> "none", quantity |-> <<0, 1>>, from_unit |-> "each", to_unit |-> "each",
           out |-> [err |-> "none", val |-> <<0, 1>>],
           back |-> [err |-> "none", val |-> <<0, 1>>]]

Init ==
    /\ ingredients = {}
    /\ recipes = {}
    /\ recipe_items = {}
    /\ sqlite_sequence = EmptyStore.sqlite_sequence
    /\ nreq = 0
    /\ last = NoRequest
    /\ conv = NoCall

Next ==
    \/ \E payload \in IngredientPayloads : add_ingredient(payload)
    \/ \E payload \in RecipePayloads : save_recipe(payload)

Spec == Init /\ [][Next]_vars

-----------------------------------------------------------------------------
(* The converter on its own: a call, then the call back *)

ConvUnits == UNITS \cup {"cups", "Pounds"}

ConvQuantities == {Rat(n, d) : n \in 0..MaxQtyNum, d \in 1..MaxQtyDen}

InitConv ==
    /\ ingredients = {}
    /\ recipes = {}
    /\ recipe_items = {}
    /\ sqlite_sequence = EmptyStore.sqlite_sequence
    /\ nreq = 0
    /\ last = NoRequest
    /\ \E q \in ConvQuantities, a \in ConvUnits, b \in ConvUnits :
           conv = [NoCall EXCEPT !.stage = "input", !.quantity = q,
                                 !.from_unit = a, !.to_unit = b]

Convert ==
    /\ conv.stage = "input"
    /\ conv' = [conv EXCEPT !.stage = "converted",
                            !.out = convert_quantity(conv.quantity, conv.from_unit,
                                                     conv.to_unit)]
    /\ UNCHANGED <<db, nreq, last>>

ConvertBack ==
    /\ conv.stage = "converted"
    /\ conv.out.err = "none"
    /\ conv' = [conv EXCEPT !.stage = "returned",
                            !.back = convert_quantity(conv.out.val, conv.to_unit,
                                                      conv.from_unit)]
    /\ UNCHANGED <<db, nreq, last>>

NextConv == Convert \/ ConvertBack

SpecConv == InitConv /\ [][NextConv]_vars

-----------------------------------------------------------------------------
(* Properties *)

SaveStep == last'.op = "save_recipe"

AddStep == last'.op = "add_ingredient"

\* the recipe_items row written for the k-th line item of the request that
\* has just committed n rows
ItemRow(items, seq, n, k) == CHOOSE it \in items : it.id = seq.recipe_items - n + k

SameAP(x, y) ==
    x.ap_quantity = y.ap_quantity /\ x.ap_unit = y.ap_unit /\ x.ap_price = y.ap_price

\* C1: a save_recipe request that fails leaves the store exactly as it was:
\* no recipe row, no recipe_item row, no auto-created ingredient row, and
\* the AUTOINCREMENT counters as before.
C1_FailedSaveLeavesStore ==
    [][(SaveStep /\ last'.status = "error") => UNCHANGED db]_vars

\* a save_recipe that failed after an earlier part of the same request had
\* inserted an ingredient row, against a store that held rows already
C1_Witness ==
    /\ last.op = "save_recipe"
    /\ last.status = "error"
    /\ last.created > 0
    /\ ingredients # {}

\* C2: a line item of a committed save_recipe whose name matches, without
\* regard to case, an ingredient stored before the request or created by an
\* earlier item of it takes its ingredient_id, its AP snapshot and its costs
\* from that ingredient and not from the caller; the ingredient rows that
\* existed are not modified.  With no match a row is created from the
\* caller's AP fields and those are used.
C2_StoredValuesOverride ==
    [][(SaveStep /\ last'.status = "ok") =>
        /\ ingredients \subseteq ingredients'
        /\ Cardinality(ingredients') = Cardinality(ingredients) + last'.created
        /\ \A k \in 1..Len(last'.supplied) :
             LET s       == last'.supplied[k]
                 row     == ItemRow(recipe_items', sqlite_sequence', Len(last'.supplied), k)
                 stored  == {e \in ingredients : Lower(e.name) = Lower(s.ingredient_name)}
                 earlier == {j \in 1..(k - 1) :
                               Lower(last'.supplied[j].ingredient_name) = Lower(s.ingredient_name)}
                 costs(e) == line_costs(row.ep_quantity, row.ep_unit, row.yield_percent,
                                        e.ap_quantity, e.ap_unit, e.ap_price)
                 uses(e) == /\ row.ingredient_id = e.id
                            /\ SameAP(row, e)
                            /\ row.ap_cost_per_unit = costs(e).ap_cost_per_unit
                            /\ row.extended_cost = costs(e).extended_cost
             IN  IF stored # {}
                 THEN \E e \in stored : uses(e)
                 ELSE IF earlier # {}
                 THEN LET first == last'.supplied[CHOOSE j \in earlier : \A i \in earlier : j <= i]
                      IN  \E e \in ingredients' \ ingredients :
                              /\ e.name = first.ingredient_name
                              /\ SameAP(e, first)
                              /\ uses(e)
                 ELSE \E e \in ingredients' \ ingredients :
                          /\ e.name = s.ingredient_name
                          /\ SameAP(e, s)
                          /\ uses(e)]_vars

\* a committed recipe whose items all matched stored ingredients, one of them
\* under a name written differently and with AP fields the caller set otherwise
C2_Witness ==
    /\ last.op = "save_recipe"
    /\ last.status = "ok"
    /\ last.created = 0
    /\ \E k \in 1..Len(last.supplied) :
         LET s   == last.supplied[k]
             row == ItemRow(recipe_items, sqlite_sequence, Len(last.supplied), k)
         IN  \E e \in ingredients :
                 /\ e.id = row.ingredient_id
                 /\ e.name # s.ingredient_name
                 /\ s.ap_price # e.ap_price
                 /\ s.ap_unit # e.ap_unit
                 /\ SameAP(row, e)

\* C3: no two ingredient rows have names that are equal without regard to case.
C3_NamesUniqueNoCase ==
    \A a \in ingredients : \A b \in ingredients : Lower(a.name) = Lower(b.name) => a = b

\* C4: add_ingredient on a name that is stored adds no row; it replaces that
\* row's ap_quantity, ap_unit and ap_price by the values supplied, keeps its
\* id and leaves every other row as it was.  On a new name it adds one row.
\* Either way the row of that name then holds the values of this save.
C4_UpsertOnName ==
    [][(AddStep /\ last'.status = "ok") =>
        LET same == {r \in ingredients : r.name = last'.name}
            held(r) == /\ r.ap_quantity = last'.ap[1]
                       /\ r.ap_unit = last'.ap[2]
                       /\ r.ap_price = last'.ap[3]
        IN  /\ \A r \in ingredients \ same : r \in ingredients'
            /\ \A r \in same : \E q \in ingredients' :
                   q.id = r.id /\ q.name = r.name /\ held(q)
            /\ Cardinality(ingredients') =
                   Cardinality(ingredients) + (IF same = {} THEN 1 ELSE 0)
            /\ \A q \in ingredients' : q.name = last'.name => held(q)
            /\ (\A r \in same : held(r)) /\ same # {} => ingredients' = ingredients]_vars

\* an add_ingredient that met its name in the store and changed the row, which
\* kept the first id the table gave out
C4_Witness ==
    /\ last.op = "add_ingredient"
    /\ last.status = "ok"
    /\ sqlite_sequence.ingredients > Cardinality(ingredients)
    /\ \E r \in ingredients :
         /\ r.name = last.name
         /\ r.id = 1
         /\ r.ap_price = last.ap[3]

\* C5: a committed recipe row and its recipe_item rows are never changed or
\* removed by a later request.
C5_SavedRowsStay ==
    [][recipes \subseteq recipes' /\ recipe_items \subseteq recipe_items']_vars

\* an add_ingredient has edited an ingredient that a saved line item
\* references, and the item's snapshot differs from the ingredient now
C5_Witness ==
    /\ last.op = "add_ingredient"
    /\ last.status = "ok"
    /\ \E it \in recipe_items : \E e \in ingredients :
         /\ e.id = it.ingredient_id
         /\ e.name = last.name
         /\ e.ap_price # it.ap_price

AllCostsFinite ==
    /\ \A r \in recipes :
         IsFinite(r.total_cost) /\ IsFinite(r.cost_per_portion) /\ IsFinite(r.total_with_spice)
    /\ \A it \in recipe_items :
         /\ IsFinite(it.ap_cost_per_unit)
         /\ IsFinite(it.ep_cost_per_unit)
         /\ IsFinite(it.extended_cost)
    /\ \A i \in 2..Len(last.resp) : IsFinite(last.resp[i])

\* C6: a save_recipe with a line item of yield_percent 0, or with portions 0,
\* fails and leaves the store as it was; no stored or returned cost is ever
\* infinite or undefined.
C6_ZeroYieldOrPortionsFails ==
    [][/\ (SaveStep /\ (last'.zero_yield \/ last'.zero_portions)) =>
             (last'.status = "error" /\ UNCHANGED db)
       /\ AllCostsFinite']_vars

\* a request whose only fault is the zero divisor: it raised
\* ZeroDivisionError after an ingredient row had been inserted
C6_Witness ==
    /\ last.op = "save_recipe"
    /\ last.err = "ZeroDivisionError"
    /\ last.zero_yield \/ last.zero_portions
    /\ last.created > 0
    /\ last.status = "error"

\* the measurement-type groups as the specification's table gives them
WeightUnits == {"pounds", "ounces"}

VolumeUnits == {"fluid ounces", "milliliters", "liters", "quarts", "gallons"}

CountUnits == {"each"}

Supported(u) == u \in WeightUnits \cup VolumeUnits \cup CountUnits

SameGroup(a, b) ==
    \E g \in {WeightUnits, VolumeUnits, CountUnits} : a \in g /\ b \in g

\* C7: convert_quantity raises the unsupported-unit error when either unit
\* is outside the eight, the incompatible-group error when both are among
\* them but of different groups, and returns a value in every other case.
C7_ConvertErrors ==
    conv.stage \in {"converted", "returned"} =>
        LET a == conv.from_unit
            b == conv.to_unit
        IN  /\ (~Supported(a) \/ ~Supported(b)) => conv.out.err = "Unsupported unit"
            /\ (Supported(a) /\ Supported(b) /\ ~SameGroup(a, b)) =>
                   conv.out.err = "Cannot convert"
            /\ (Supported(a) /\ Supported(b) /\ SameGroup(a, b)) =>
                   (conv.out.err = "none" /\ IsFinite(conv.out.val))

\* pounds to a volume unit was refused
C7_Witness ==
    /\ conv.stage = "converted"
    /\ conv.from_unit = "pounds"
    /\ conv.to_unit \in VolumeUnits
    /\ conv.out.err = "Cannot convert"

\* C8: every stored line item has ap_cost_per_unit = ap_price / convert(
\* ap_quantity, ap_unit, ep_unit), ep_cost_per_unit = ap_cost_per_unit /
\* (yield_percent / 100) and extended_cost = ep_cost_per_unit * ep_quantity,
\* on the AP values of its snapshot; 10 ounces at 80 % of 1 pound for 2.00
\* gives 0.125, 0.15625 and 1.5625.
C8_LineItemCosts ==
    \A it \in recipe_items :
        LET c == convert_quantity(it.ap_quantity, it.ap_unit, it.ep_unit)
        IN  /\ c.err = "none"
            /\ FMul(it.ap_cost_per_unit, c.val) = it.ap_price
            /\ FMul(it.ep_cost_per_unit, it.yield_percent) = FMul(it.ap_cost_per_unit, Rat(100, 1))
            /\ it.extended_cost = FMul(it.ep_cost_per_unit, it.ep_quantity)
            /\ IsFinite(it.extended_cost)
            /\ ( /\ it.ep_quantity = Rat(10, 1) /\ it.ep_unit = "ounces"
                 /\ it.yield_percent = Rat(80, 1) /\ it.ap_quantity = Rat(1, 1)
                 /\ it.ap_unit = "pounds" /\ it.ap_price = Rat(2, 1) )
               => ( /\ it.ap_cost_per_unit = Rat(125, 1000)
                    /\ it.ep_cost_per_unit = Rat(15625, 100000)
                    /\ it.extended_cost = Rat(15625, 10000) )

\* the worked example has been saved: the item created its ingredient from
\* the caller's 1 pound at 2.00 and was costed on it
C8_Witness ==
    /\ last.op = "save_recipe"
    /\ last.status = "ok"
    /\ last.created = 1
    /\ \E it \in recipe_items :
         /\ it.ap_unit = "pounds" /\ it.ap_price = Rat(2, 1) /\ it.ap_quantity = Rat(1, 1)
         /\ it.ep_quantity = Rat(10, 1) /\ it.yield_percent = Rat(80, 1)
         /\ it.extended_cost = Rat(15625, 10000)

RECURSIVE SumExtended(_)
SumExtended(rows) ==
    IF rows = {} THEN Rat(0, 1)
    ELSE LET it == CHOOSE x \in rows : TRUE
         IN  FAdd(it.extended_cost, SumExtended(rows \ {it}))

ItemsOf(r) == {it \in recipe_items : it.recipe_id = r.id}

\* C9: every stored recipe has total_cost = the sum of extended_cost over the
\* recipe_item rows of its id, cost_per_portion = total_cost / portions and
\* total_with_spice = cost_per_portion * (1 + spice_factor_percent / 100);
\* 1.5625 over 5 portions at spice factor 10 gives 0.3125 and 0.34375.
C9_RecipeTotals ==
    /\ \A it \in recipe_items : \E r \in recipes : it.recipe_id = r.id
    /\ \A r \in recipes : \A q \in recipes : r.id = q.id => r = q
    /\ \A r \in recipes :
        /\ r.total_cost = SumExtended(ItemsOf(r))
        /\ ~IsZero(r.portions)
        /\ FMul(r.cost_per_portion, r.portions) = r.total_cost
        /\ r.total_with_spice =
               FMul(r.cost_per_portion,
                    FAdd(Rat(1, 1), FMul(r.spice_factor_percent, Rat(1, 100))))
        /\ ( /\ r.total_cost = Rat(15625, 10000) /\ r.portions = Rat(5, 1)
             /\ r.spice_factor_percent = Rat(10, 1) )
           => ( /\ r.cost_per_portion = Rat(3125, 10000)
                /\ r.total_with_spice = Rat(34375, 100000) )

\* the worked example is stored beside a recipe of two line items
C9_Witness ==
    /\ \E r \in recipes :
         /\ Cardinality(ItemsOf(r)) = 1
         /\ r.total_cost = Rat(15625, 10000)
         /\ r.total_with_spice = Rat(34375, 100000)
    /\ \E r \in recipes : Cardinality(ItemsOf(r)) = 2 /\ ~IsZero(r.total_cost)

\* C10: for supported units a, b of one group and every quantity q,
\* convert_quantity(q, a, a) = q and convert_quantity(convert_quantity(q, a,
\* b), b, a) = q, in exact arithmetic.
C10_ConvertRoundTrip ==
    /\ ( /\ conv.stage \in {"converted", "returned"}
         /\ Supported(conv.from_unit)
         /\ conv.from_unit = conv.to_unit )
       => (conv.out.err = "none" /\ conv.out.val = conv.quantity)
    /\ conv.stage = "returned"
       => (conv.back.err = "none" /\ conv.back.val = conv.quantity)

\* gallons to quarts and back, on a quantity the first conversion changed
C10_Witness ==
    /\ conv.stage = "returned"
    /\ conv.from_unit = "gallons"
    /\ conv.to_unit = "quarts"
    /\ conv.quantity = Rat(3, 2)
    /\ conv.out.val # conv.quantity
    /\ conv.back.val = conv.quantity

=============================================================================
